---------------------------- MODULE Spec2Model ----------------------------
(***************************************************************************)
(* A model of OpenMOC's Geometry class (src/openmoc/src/host/Geometry.cpp):*)
(* the five registries and the bounding box filled by the add* methods,    *)
(* the flat source region (FSR) numbering, and the ray tracing kernel      *)
(* findNextCell / segmentize.                                              *)
(*                                                                         *)
(* Lengths are integers counted in units of TINY_MOVE.  A call of          *)
(* log_printf(ERROR, ...) ends the run: the geometry is left as it was at  *)
(* the call and `fatal` holds.                                             *)
(***************************************************************************)
EXTENDS Integers, Sequences, FiniteSets, TLC

VARIABLES
    materials,        \* std::map<short int, Material*> _materials
    surfaces,         \* std::map<short int, Surface*>  _surfaces
    cells,            \* std::map<short int, Cell*>     _cells
    universes,        \* std::map<short int, Universe*> _universes
    lattices,         \* std::map<short int, Lattice*>  _lattices
    x_min, x_max, y_min, y_max,
    top_bc, bottom_bc, left_bc, right_bc,
    num_groups,
    num_FSRs,
    FSRs_to_cells,    \* int* _FSRs_to_cells: entry r is element r + 1; empty
    FSRs_to_materials,\* until allocated; NULL marks an entry not written yet
    region_maps,      \* the _region_map of every universe and lattice, by ID
    max_seg_length, min_seg_length,
    fatal,            \* TRUE once log_printf(ERROR, ...) was reached
    hist,             \* the last call: name, argument, geometry before it, result
    nops,             \* number of calls made so far
    frames            \* the frame of every segmentize call made, by call or thread

geoVars == <<materials, surfaces, cells, universes, lattices,
             x_min, x_max, y_min, y_max,
             top_bc, bottom_bc, left_bc, right_bc, num_groups,
             num_FSRs, FSRs_to_cells, FSRs_to_materials, region_maps,
             max_seg_length, min_seg_length, fatal>>

vars == <<geoVars, hist, nops, frames>>

-----------------------------------------------------------------------------
(* Bounds of the model *)

\* Number of add* calls explored in the full construction specification
MaxOps == 3
\* Number of addSurface / addCell calls explored in the surface specification
MaxSurfOps == 3
\* Number of addMaterial calls explored in the material specification
MaxMatOps == 3

-----------------------------------------------------------------------------
(* Numbers *)

\* std::numeric_limits<double>::max(), in model units
DBL_MAX == 1000
\* std::numeric_limits<double>::infinity()
Infinity == DBL_MAX + 1

\* a null pointer, and the value of an ID field that holds no ID
NULL == 0 - 1

EmptyMap == [k \in {} |-> 0]

Range(f) == {f[k] : k \in DOMAIN f}

\* std::map::insert: an existing key keeps its value
MapInsert(m, k, v) ==
    IF k \in DOMAIN m THEN m
    ELSE [x \in DOMAIN m \cup {k} |-> IF x = k THEN v ELSE m[x]]

Min(S) == CHOOSE x \in S : \A y \in S : x <= y
Max(S) == CHOOSE x \in S : \A y \in S : x >= y

\* The elements of a finite set of integers in ascending order (the iteration
\* order of a std::map over its keys)
RECURSIVE Ascending(_)
Ascending(S) ==
    IF S = {} THEN <<>>
    ELSE <<Min(S)>> \o Ascending(S \ {Min(S)})

-----------------------------------------------------------------------------
(* Surfaces: the axis extents a Surface reports *)

getXMin(s) ==
    CASE s.kind = "XPLANE" -> s.c
      [] s.kind = "YPLANE" -> -Infinity
      [] OTHER -> -s.c

getXMax(s) ==
    CASE s.kind = "XPLANE" -> s.c
      [] s.kind = "YPLANE" -> Infinity
      [] OTHER -> s.c

getYMin(s) ==
    CASE s.kind = "XPLANE" -> -Infinity
      [] s.kind = "YPLANE" -> s.c
      [] OTHER -> -s.c

getYMax(s) ==
    CASE s.kind = "XPLANE" -> Infinity
      [] s.kind = "YPLANE" -> s.c
      [] OTHER -> s.c

-----------------------------------------------------------------------------
(* The geometry as one value, for the operators that model the methods *)

Geo ==
    [materials |-> materials, surfaces |-> surfaces, cells |-> cells,
     universes |-> universes, lattices |-> lattices,
     x_min |-> x_min, x_max |-> x_max, y_min |-> y_min, y_max |-> y_max,
     top_bc |-> top_bc, bottom_bc |-> bottom_bc,
     left_bc |-> left_bc, right_bc |-> right_bc,
     num_groups |-> num_groups, num_FSRs |-> num_FSRs,
     FSRs_to_cells |-> FSRs_to_cells,
     FSRs_to_materials |-> FSRs_to_materials,
     region_maps |-> region_maps,
     max_seg_length |-> max_seg_length, min_seg_length |-> min_seg_length,
     fatal |-> fatal]

SetGeo(g) ==
    /\ materials' = g.materials
    /\ surfaces' = g.surfaces
    /\ cells' = g.cells
    /\ universes' = g.universes
    /\ lattices' = g.lattices
    /\ x_min' = g.x_min
    /\ x_max' = g.x_max
    /\ y_min' = g.y_min
    /\ y_max' = g.y_max
    /\ top_bc' = g.top_bc
    /\ bottom_bc' = g.bottom_bc
    /\ left_bc' = g.left_bc
    /\ right_bc' = g.right_bc
    /\ num_groups' = g.num_groups
    /\ num_FSRs' = g.num_FSRs
    /\ FSRs_to_cells' = g.FSRs_to_cells
    /\ FSRs_to_materials' = g.FSRs_to_materials
    /\ region_maps' = g.region_maps
    /\ max_seg_length' = g.max_seg_length
    /\ min_seg_length' = g.min_seg_length
    /\ fatal' = g.fatal

\* Geometry::Geometry()
NewGeometry ==
    [materials |-> EmptyMap, surfaces |-> EmptyMap, cells |-> EmptyMap,
     universes |-> EmptyMap, lattices |-> EmptyMap,
     x_min |-> DBL_MAX, x_max |-> -DBL_MAX,
     y_min |-> DBL_MAX, y_max |-> -DBL_MAX,
     top_bc |-> 1, bottom_bc |-> 1, left_bc |-> 1, right_bc |-> 1,
     num_groups |-> 0, num_FSRs |-> 0,
     FSRs_to_cells |-> <<>>, FSRs_to_materials |-> <<>>,
     region_maps |-> EmptyMap,
     max_seg_length |-> 0, min_seg_length |-> Infinity,
     fatal |-> FALSE]

\* the variables hold the geometry g
GeoIs(g) ==
    /\ materials = g.materials
    /\ surfaces = g.surfaces
    /\ cells = g.cells
    /\ universes = g.universes
    /\ lattices = g.lattices
    /\ x_min = g.x_min
    /\ x_max = g.x_max
    /\ y_min = g.y_min
    /\ y_max = g.y_max
    /\ top_bc = g.top_bc
    /\ bottom_bc = g.bottom_bc
    /\ left_bc = g.left_bc
    /\ right_bc = g.right_bc
    /\ num_groups = g.num_groups
    /\ num_FSRs = g.num_FSRs
    /\ FSRs_to_cells = g.FSRs_to_cells
    /\ FSRs_to_materials = g.FSRs_to_materials
    /\ region_maps = g.region_maps
    /\ max_seg_length = g.max_seg_length
    /\ min_seg_length = g.min_seg_length
    /\ fatal = g.fatal

\* log_printf(ERROR, ...): the run ends with the geometry as it is
Error(g) == [g EXCEPT !.fatal = TRUE]

-----------------------------------------------------------------------------
(* Geometry::addMaterial *)

\* variant: the group count of a later material is not compared
addMaterial_noGroupCheck(g, m) ==
    IF m.id \in DOMAIN g.materials THEN Error(g)
    ELSE IF m.groups = 0 THEN Error(g)
    ELSE LET g1 == IF g.num_groups = 0
                   THEN [g EXCEPT !.num_groups = m.groups]
                   ELSE g
         IN  IF ~m.sigma_ok THEN Error(g1)
             ELSE [g1 EXCEPT !.materials = MapInsert(g1.materials, m.id, m)]

addMaterial(g, m) ==
    IF m.id \in DOMAIN g.materials THEN Error(g)
    ELSE IF m.groups = 0 THEN Error(g)
    ELSE IF g.num_groups # 0 /\ g.num_groups # m.groups THEN Error(g)
    ELSE LET g1 == IF g.num_groups = 0
                   THEN [g EXCEPT !.num_groups = m.groups]
                   ELSE g
         IN  IF ~m.sigma_ok THEN Error(g1)
             ELSE [g1 EXCEPT !.materials = MapInsert(g1.materials, m.id, m)]

-----------------------------------------------------------------------------
(* Geometry::addSurface *)

\* variant: the VACUUM case sets the flags as the REFLECTIVE case does
updateBoundaries_flagsAlwaysOne(g, s) ==
    IF s.boundary = "BOUNDARY_NONE" THEN g
    ELSE
      LET g1 == IF getXMin(s) < g.x_min /\ getXMin(s) # -Infinity
                THEN [g EXCEPT !.x_min = getXMin(s), !.left_bc = 1]
                ELSE g
          g2 == IF getXMax(s) > g1.x_max /\ getXMax(s) # Infinity
                THEN [g1 EXCEPT !.x_max = getXMax(s), !.right_bc = 1]
                ELSE g1
          g3 == IF getYMin(s) < g2.y_min /\ getYMin(s) # -Infinity
                THEN [g2 EXCEPT !.y_min = getYMin(s), !.bottom_bc = 1]
                ELSE g2
          g4 == IF getYMax(s) > g3.y_max /\ getYMax(s) # Infinity
                THEN [g3 EXCEPT !.y_max = getYMax(s), !.top_bc = 1]
                ELSE g3
      IN  g4

\* the switch on the boundary type (lines 394-444)
updateBoundaries(g, s) ==
    IF s.boundary = "BOUNDARY_NONE" THEN g
    ELSE
      LET bc == IF s.boundary = "REFLECTIVE" THEN 1 ELSE 0
          g1 == IF getXMin(s) < g.x_min /\ getXMin(s) # -Infinity
                THEN [g EXCEPT !.x_min = getXMin(s), !.left_bc = bc]
                ELSE g
          g2 == IF getXMax(s) > g1.x_max /\ getXMax(s) # Infinity
                THEN [g1 EXCEPT !.x_max = getXMax(s), !.right_bc = bc]
                ELSE g1
          g3 == IF getYMin(s) < g2.y_min /\ getYMin(s) # -Infinity
                THEN [g2 EXCEPT !.y_min = getYMin(s), !.bottom_bc = bc]
                ELSE g2
          g4 == IF getYMax(s) > g3.y_max /\ getYMax(s) # Infinity
                THEN [g3 EXCEPT !.y_max = getYMax(s), !.top_bc = bc]
                ELSE g3
      IN  g4

\* variant: a duplicate ID skips the insertion only
addSurface_duplicateUpdatesBox(g, s) ==
    updateBoundaries([g EXCEPT !.surfaces = MapInsert(g.surfaces, s.id, s)], s)

addSurface(g, s) ==
    IF s.id \in DOMAIN g.surfaces THEN g
    ELSE updateBoundaries(
             [g EXCEPT !.surfaces = MapInsert(g.surfaces, s.id, s)], s)

-----------------------------------------------------------------------------
(* Geometry::addUniverse *)

\* variant: a duplicate ID is reported but the universe is stored all the same
addUniverse_duplicateReplaces(g, u) ==
    LET g1 == IF u.id \in DOMAIN g.universes THEN Error(g) ELSE g
    IN  [g1 EXCEPT
            !.universes = [x \in DOMAIN g.universes \cup {u.id} |->
                             IF x = u.id THEN u ELSE g.universes[x]]]

addUniverse(g, u) ==
    IF u.id \in DOMAIN g.universes THEN Error(g)
    ELSE [g EXCEPT
            !.universes = MapInsert(g.universes, u.id, u),
            !.cells = [k \in DOMAIN g.cells |->
                         IF g.cells[k].type = "FILL"
                            /\ g.cells[k].universe_fill = u.id
                         THEN [g.cells[k] EXCEPT !.fill_ptr = u.id]
                         ELSE g.cells[k]]]

\* new Universe(id)
NewUniverse(id) == [id |-> id, type |-> "SIMPLE", cells |-> {}]

-----------------------------------------------------------------------------
(* Geometry::addCell *)

\* the loop over cell->getSurfaces(), a std::map keyed by halfspace * id
RECURSIVE addCellSurfaces(_, _, _)
addCellSurfaces(g, c, keys) ==
    IF keys = <<>> THEN g
    ELSE addCellSurfaces(addSurface(g, c.surfaces[Head(keys)]), c, Tail(keys))

\* variant: the material of a material cell is not looked up
addCell_noMaterialCheck(g, c) ==
    IF c.id \in DOMAIN g.cells THEN Error(g)
    ELSE
      LET g1 == addCellSurfaces(g, c, Ascending(DOMAIN c.surfaces))
          g2 == [g1 EXCEPT !.cells = MapInsert(g1.cells, c.id, c)]
          g3 == IF c.universe \notin DOMAIN g2.universes
                THEN addUniverse(g2, NewUniverse(c.universe))
                ELSE g2
      IN  [g3 EXCEPT !.universes[c.universe].cells = @ \cup {c.id}]

addCell(g, c) ==
    IF c.id \in DOMAIN g.cells THEN Error(g)
    ELSE IF c.type = "MATERIAL" /\ c.material \notin DOMAIN g.materials
         THEN Error(g)
    ELSE
      LET g1 == addCellSurfaces(g, c, Ascending(DOMAIN c.surfaces))
          g2 == [g1 EXCEPT !.cells = MapInsert(g1.cells, c.id, c)]
          g3 == IF c.universe \notin DOMAIN g2.universes
                THEN addUniverse(g2, NewUniverse(c.universe))
                ELSE g2
      IN  [g3 EXCEPT !.universes[c.universe].cells = @ \cup {c.id}]

-----------------------------------------------------------------------------
(* Geometry::addLattice *)

\* the universe IDs of the lattice cells, lattice->getUniverses().at(i).at(j)
LatticeChildren(l) ==
    {l.universes[i][j] : i \in 1..l.num_y, j \in 1..l.num_x}

\* a Lattice seen through its Universe base class
AsUniverse(l) == [id |-> l.id, type |-> "LATTICE", cells |-> {}]

\* variant: the lattice is not entered into the universe registry
addLattice_latticeRegistryOnly(g, l) ==
    IF l.id \in DOMAIN g.lattices THEN Error(g)
    ELSE IF l.id \in DOMAIN g.universes THEN Error(g)
    ELSE IF \E u \in LatticeChildren(l) : u \notin DOMAIN g.universes
         THEN Error(g)
    ELSE [g EXCEPT !.lattices = MapInsert(g.lattices, l.id, l)]

addLattice(g, l) ==
    IF l.id \in DOMAIN g.lattices THEN Error(g)
    ELSE IF l.id \in DOMAIN g.universes THEN Error(g)
    ELSE IF \E u \in LatticeChildren(l) : u \notin DOMAIN g.universes
         THEN Error(g)
    ELSE addUniverse(
             [g EXCEPT !.lattices = MapInsert(g.lattices, l.id, l)],
             AsUniverse(l))

-----------------------------------------------------------------------------
(* Objects handed to the add* methods *)

Material(id, groups, ok) == [id |-> id, groups |-> groups, sigma_ok |-> ok]

Surface(id, kind, c, boundary) ==
    [id |-> id, kind |-> kind, c |-> c, boundary |-> boundary]

\* cell->getSurfaces() is keyed by halfspace * surface ID
HalfSpaces(pairs) ==
    [k \in {p[1] * p[2].id : p \in pairs} |->
        (CHOOSE p \in pairs : p[1] * p[2].id = k)[2]]

CellBasic(id, universe, material, pairs) ==
    [id |-> id, type |-> "MATERIAL", universe |-> universe,
     material |-> material, universe_fill |-> NULL, fill_ptr |-> NULL,
     surfaces |-> HalfSpaces(pairs)]

CellFill(id, universe, universe_fill, pairs) ==
    [id |-> id, type |-> "FILL", universe |-> universe,
     material |-> NULL, universe_fill |-> universe_fill, fill_ptr |-> NULL,
     surfaces |-> HalfSpaces(pairs)]

\* universes[i][j] is the universe ID of lattice cell (j - 1, i - 1)
Lattice(id, width_x, width_y, rows) ==
    [id |-> id, num_x |-> Len(rows[1]), num_y |-> Len(rows),
     width_x |-> width_x, width_y |-> width_y, universes |-> rows]

BoundaryTypes == {"REFLECTIVE", "VACUUM", "BOUNDARY_NONE"}

\* Pools of the construction specification
MaterialPool ==
    {Material(1, 1, TRUE), Material(1, 2, TRUE),
     Material(2, 1, TRUE), Material(2, 2, FALSE)}

SurfacePool ==
    {Surface(1, "XPLANE", -4, "REFLECTIVE"), Surface(1, "XPLANE", -8, "VACUUM"),
     Surface(2, "CIRCLE", 4, "VACUUM")}

CellPool ==
    {CellBasic(id, u, 1, {}) : id \in {1, 2}, u \in {0, 1}}
    \cup {CellFill(id, u, 1, {<<1, Surface(1, "XPLANE", -4, "REFLECTIVE")>>}) :
             id \in {1, 2}, u \in {0, 1}}

UniversePool == {NewUniverse(id) : id \in {0, 1, 2}}

LatticePool ==
    {Lattice(2, 4, 4, <<<<1, 1>>>>), Lattice(2, 4, 4, <<<<1, 3>>>>),
     Lattice(1, 4, 4, <<<<1, 1>>>>)}

\* Pools of the surface specification
SurfaceShapes == {<<"XPLANE", -4>>, <<"CIRCLE", 4>>, <<"CIRCLE", 8>>}

BigSurfacePool ==
    {Surface(id, sh[1], sh[2], b) :
        id \in {1, 2, 3}, sh \in SurfaceShapes, b \in BoundaryTypes}

SurfaceCellPool ==
    {CellFill(id, 0, 1,
              {<<1, Surface(1, "XPLANE", -4, b1)>>,
               <<-1, Surface(2, "YPLANE", 4, b2)>>}) :
        id \in {1, 2}, b1 \in {"REFLECTIVE", "VACUUM"},
        b2 \in {"VACUUM", "BOUNDARY_NONE"}}

\* Pool of the material specification
BigMaterialPool ==
    {Material(id, n, ok) : id \in {1, 2, 3}, n \in 0..2, ok \in BOOLEAN}

-----------------------------------------------------------------------------
(* Construction: the add* calls *)

Call(op, arg, g) ==
    /\ ~fatal
    /\ \E after \in {g} : SetGeo(after)
    /\ hist' = [op |-> op, arg |-> arg, pre |-> Geo, ret |-> NULL]
    /\ nops' = nops + 1
    /\ UNCHANGED frames

AddMaterial(m) == Call("addMaterial", m, addMaterial(Geo, m))

AddSurface(s) == Call("addSurface", s, addSurface(Geo, s))

AddCell(c) == Call("addCell", c, addCell(Geo, c))

AddUniverse(u) == Call("addUniverse", u, addUniverse(Geo, u))

AddLattice(l) == Call("addLattice", l, addLattice(Geo, l))

Init ==
    /\ GeoIs(NewGeometry)
    /\ hist = [op |-> "Geometry", arg |-> NULL, pre |-> NewGeometry, ret |-> NULL]
    /\ nops = 0
    /\ frames = EmptyMap

\* every add* method, in any order
Next ==
    \/ \E m \in MaterialPool : nops < MaxOps /\ AddMaterial(m)
    \/ \E s \in SurfacePool : nops < MaxOps /\ AddSurface(s)
    \/ \E c \in CellPool : nops < MaxOps /\ AddCell(c)
    \/ \E u \in UniversePool : nops < MaxOps /\ AddUniverse(u)
    \/ \E l \in LatticePool : nops < MaxOps /\ AddLattice(l)

Spec == Init /\ [][Next]_vars

\* surfaces, added directly and through the cells that reference them
NextSurface ==
    \/ \E s \in BigSurfacePool : nops < MaxSurfOps /\ AddSurface(s)
    \/ \E c \in SurfaceCellPool : nops < MaxSurfOps /\ AddCell(c)

SpecSurface == Init /\ [][NextSurface]_vars

\* materials only
NextMaterial == \E m \in BigMaterialPool : nops < MaxMatOps /\ AddMaterial(m)

SpecMaterial == Init /\ [][NextMaterial]_vars

-----------------------------------------------------------------------------
(* Properties of the construction methods *)

BoundarySurfaces == {s \in Range(surfaces) : s.boundary # "BOUNDARY_NONE"}

BCOf(s) == IF s.boundary = "REFLECTIVE" THEN 1 ELSE 0

FiniteXMin == {getXMin(s) : s \in BoundarySurfaces} \ {-Infinity}
FiniteXMax == {getXMax(s) : s \in BoundarySurfaces} \ {Infinity}
FiniteYMin == {getYMin(s) : s \in BoundarySurfaces} \ {-Infinity}
FiniteYMax == {getYMax(s) : s \in BoundarySurfaces} \ {Infinity}

BoxAndFlags(g) ==
    <<g.x_min, g.x_max, g.y_min, g.y_max,
      g.left_bc, g.right_bc, g.bottom_bc, g.top_bc>>

Registries(g) ==
    <<g.materials, g.surfaces, g.cells, g.universes, g.lattices>>

DuplicateId ==
    CASE hist.op = "addMaterial" -> hist.arg.id \in DOMAIN hist.pre.materials
      [] hist.op = "addCell" -> hist.arg.id \in DOMAIN hist.pre.cells
      [] hist.op = "addUniverse" -> hist.arg.id \in DOMAIN hist.pre.universes
      [] hist.op = "addLattice" ->
            \/ hist.arg.id \in DOMAIN hist.pre.lattices
            \/ hist.arg.id \in DOMAIN hist.pre.universes
      [] OTHER -> FALSE

\* C8: addMaterial, addCell, addUniverse and addLattice called with an ID that
\* is already registered end in a fatal error and leave all five registries as
\* they were.
C8_DuplicateIdFatal ==
    DuplicateId => fatal /\ Registries(Geo) = Registries(hist.pre)

\* a second lattice with the ID of a registered lattice was added
C8_Witness ==
    /\ hist.op = "addLattice"
    /\ hist.arg.id \in DOMAIN hist.pre.lattices
    /\ hist.arg # hist.pre.lattices[hist.arg.id]
    /\ fatal

\* C9: addSurface with an ID already in the surface registry returns without
\* error and leaves the whole geometry unchanged.
C9_DuplicateSurfaceIgnored ==
    (hist.op = "addSurface" /\ hist.arg.id \in DOMAIN hist.pre.surfaces)
        => ~fatal /\ Geo = hist.pre

\* the second surface has another boundary type and reaches further left than
\* the bounding box
C9_Witness ==
    /\ hist.op = "addSurface"
    /\ hist.arg.id \in DOMAIN hist.pre.surfaces
    /\ hist.arg.boundary = "VACUUM"
    /\ hist.pre.surfaces[hist.arg.id].boundary = "REFLECTIVE"
    /\ getXMin(hist.arg) < hist.pre.x_min
    /\ getXMin(hist.arg) # -Infinity

\* C10: every registered material has num_groups energy groups; a material
\* with zero groups, or with a group count other than the one already set, is
\* fatal and not inserted; the first material added sets the group count.
C10_EnergyGroups ==
    /\ \A id \in DOMAIN materials : materials[id].groups = num_groups
    /\ (hist.op = "addMaterial"
        /\ (\/ hist.arg.groups = 0
            \/ hist.pre.num_groups \notin {0, hist.arg.groups}))
          => fatal /\ materials = hist.pre.materials
    /\ (hist.op = "addMaterial" /\ ~fatal /\ hist.pre.materials = EmptyMap)
          => num_groups = hist.arg.groups /\ DOMAIN materials = {hist.arg.id}

\* a material with a new ID and another group count than the registered ones
C10_Witness ==
    /\ hist.op = "addMaterial"
    /\ hist.pre.materials # EmptyMap
    /\ hist.arg.id \notin DOMAIN hist.pre.materials
    /\ hist.arg.groups \notin {0, hist.pre.num_groups}
    /\ hist.arg.sigma_ok
    /\ fatal

-----------------------------------------------------------------------------
(* Flat source region numbering *)

\* Geometry::initializeCellFillPointers: _universes.at() throws for a missing ID
RECURSIVE initializeCellFillPointersLoop(_, _)
initializeCellFillPointersLoop(g, keys) ==
    IF keys = <<>> THEN g
    ELSE LET c == g.cells[Head(keys)]
         IN  IF c.type # "FILL"
             THEN initializeCellFillPointersLoop(g, Tail(keys))
             ELSE IF c.universe_fill \notin DOMAIN g.universes THEN Error(g)
             ELSE initializeCellFillPointersLoop(
                      [g EXCEPT !.cells[c.id].fill_ptr = c.universe_fill],
                      Tail(keys))

initializeCellFillPointers(g) ==
    initializeCellFillPointersLoop(g, Ascending(DOMAIN g.cells))

\* Geometry::subdivideCells: no cell of the model has rings or sectors
subdivideCells(g) == g

\* the lattice cells (j, i) in the order of the loops i over y, j over x
RowMajor(l) ==
    [k \in 1..(l.num_x * l.num_y) |->
        <<(k - 1) % l.num_x, (k - 1) \div l.num_x>>]

\* Lattice::getUniverse(j, i)
getLatticeUniverse(l, j, i) == l.universes[i + 1][j + 1]

\* Universe::computeFSRMaps and Lattice::computeFSRMaps: every cell gets the
\* number of FSRs of the cells before it; the result is the total and the
\* region maps of all universes below
RECURSIVE computeFSRMaps(_, _, _)
RECURSIVE universeFSRLoop(_, _, _)
RECURSIVE latticeFSRLoop(_, _, _, _)

universeFSRLoop(g, keys, acc) ==
    IF keys = <<>> THEN acc
    ELSE LET c == g.cells[Head(keys)]
             sub == IF c.type = "MATERIAL"
                    THEN [n |-> 1, maps |-> acc.maps]
                    ELSE computeFSRMaps(g, c.fill_ptr, acc.maps)
         IN  universeFSRLoop(g, Tail(keys),
                 [n |-> acc.n + sub.n, maps |-> sub.maps,
                  local |-> MapInsert(acc.local, c.id, acc.n)])

latticeFSRLoop(g, l, keys, acc) ==
    IF keys = <<>> THEN acc
    ELSE LET ji == Head(keys)
             sub == computeFSRMaps(g, getLatticeUniverse(l, ji[1], ji[2]),
                                   acc.maps)
         IN  latticeFSRLoop(g, l, Tail(keys),
                 [n |-> acc.n + sub.n, maps |-> sub.maps,
                  local |-> MapInsert(acc.local, ji, acc.n)])

computeFSRMaps(g, uid, maps) ==
    LET start == [n |-> 0, maps |-> maps, local |-> EmptyMap]
        r == IF g.universes[uid].type = "SIMPLE"
             THEN universeFSRLoop(g, Ascending(g.universes[uid].cells), start)
             ELSE latticeFSRLoop(g, g.lattices[uid],
                                 RowMajor(g.lattices[uid]), start)
    IN  [n |-> r.n,
         maps |-> [u \in DOMAIN r.maps \cup {uid} |->
                      IF u = uid THEN r.local ELSE r.maps[u]]]

\* Universe::getFSR(cell_id) and Lattice::getFSR(j, i)
getFSR(g, uid, key) == g.region_maps[uid][key]

\* the loop over the cells of a SIMPLE universe (lines 739-749)
RECURSIVE findCellSimpleLoop(_, _, _, _, _)
findCellSimpleLoop(g, uid, fsr_id, keys, acc) ==
    IF keys = <<>> THEN acc
    ELSE LET fsr_map_id == getFSR(g, uid, Head(keys))
             a1 == IF fsr_map_id <= fsr_id /\ fsr_map_id >= acc.max_id
                   THEN [acc EXCEPT !.max_id = fsr_map_id, !.cell = Head(keys)]
                   ELSE acc
             a2 == IF fsr_map_id < a1.min_id
                   THEN [a1 EXCEPT !.min_id = fsr_map_id,
                                   !.cell_min = Head(keys)]
                   ELSE a1
         IN  findCellSimpleLoop(g, uid, fsr_id, Tail(keys), a2)

\* the loop over the lattice cells (lines 791-799)
RECURSIVE findCellLatticeLoop(_, _, _, _, _)
findCellLatticeLoop(g, l, fsr_id, keys, acc) ==
    IF keys = <<>> THEN acc
    ELSE LET ji == Head(keys)
             fsr_map_id == getFSR(g, l.id, ji)
             a1 == IF fsr_map_id <= fsr_id /\ fsr_map_id >= acc.max_id
                   THEN [max_id |-> fsr_map_id,
                         next_univ |-> getLatticeUniverse(l, ji[1], ji[2])]
                   ELSE acc
         IN  findCellLatticeLoop(g, l, fsr_id, Tail(keys), a1)

\* the result of a call that ended in log_printf(ERROR, ...)
Failed == [fatal |-> TRUE, cell |-> NULL]
Found(c) == [fatal |-> FALSE, cell |-> c]

\* Geometry::findCell(Universe* univ, int fsr_id)
RECURSIVE findCellFSR(_, _, _)
findCellFSR(g, uid, fsr_id) ==
    IF fsr_id < -1 \/ fsr_id > g.num_FSRs THEN Failed
    ELSE IF g.universes[uid].type = "SIMPLE" THEN
      LET a == findCellSimpleLoop(g, uid, fsr_id,
                   Ascending(g.universes[uid].cells),
                   [cell |-> NULL, cell_min |-> NULL,
                    max_id |-> 0, min_id |-> Infinity])
      IN  IF a.cell_min = NULL THEN Failed
          ELSE IF a.max_id > fsr_id THEN
               IF g.cells[a.cell_min].type = "MATERIAL" THEN Failed
               ELSE findCellFSR(g, g.cells[a.cell_min].fill_ptr, fsr_id)
          ELSE IF fsr_id - a.max_id = 0
                  /\ g.cells[a.cell_min].type = "MATERIAL"
               THEN Found(a.cell)
          ELSE IF fsr_id - a.max_id # 0
                  /\ g.cells[a.cell_min].type = "MATERIAL"
               THEN Failed
          ELSE findCellFSR(g, g.cells[a.cell_min].fill_ptr,
                           fsr_id - a.max_id)
    ELSE
      LET a == findCellLatticeLoop(g, g.lattices[uid], fsr_id,
                   RowMajor(g.lattices[uid]),
                   [max_id |-> 0, next_univ |-> NULL])
      IN  IF a.max_id > fsr_id \/ a.next_univ = NULL THEN Failed
          ELSE findCellFSR(g, a.next_univ, fsr_id - a.max_id)

\* static_cast<CellBasic*>(cell)->getMaterial(): for a CellFill the read is of
\* another object's member, and gives whatever short is stored there
getMaterial(c, junk) == IF c.type = "MATERIAL" THEN c.material ELSE junk

\* the loop over r that loads the maps (lines 1056-1060)
RECURSIVE loadFSRMaps(_, _, _)
loadFSRMaps(g, r, junk) ==
    IF r >= g.num_FSRs THEN g
    ELSE LET curr == findCellFSR(g, 0, r)
         IN  IF curr.fatal THEN Error(g)
             ELSE loadFSRMaps(
                    [g EXCEPT
                       !.FSRs_to_cells[r + 1] = curr.cell,
                       !.FSRs_to_materials[r + 1] =
                           getMaterial(g.cells[curr.cell], junk)],
                    r + 1, junk)

\* Geometry::initializeFlatSourceRegions
\* variant: the two arrays are allocated, one entry per cell, before the fill
\* pointers are resolved
initializeFlatSourceRegions_allocatesFirst(g, junk) ==
    LET n0 == Cardinality(DOMAIN g.cells)
        g0 == [g EXCEPT !.FSRs_to_cells = [k \in 1..n0 |-> NULL],
                        !.FSRs_to_materials = [k \in 1..n0 |-> NULL]]
        g1 == initializeCellFillPointers(g0)
        g2 == subdivideCells(g1)
        r  == computeFSRMaps(g2, 0, EmptyMap)
        g3 == [g2 EXCEPT !.num_FSRs = r.n,
                         !.region_maps = r.maps,
                         !.FSRs_to_cells = [k \in 1..r.n |-> NULL],
                         !.FSRs_to_materials = [k \in 1..r.n |-> NULL]]
    IN  IF g1.fatal THEN g1
        ELSE IF 0 \notin DOMAIN g2.universes THEN Error(g2)
        ELSE loadFSRMaps(g3, 0, junk)

initializeFlatSourceRegions(g, junk) ==
    LET g1 == initializeCellFillPointers(g)
        g2 == subdivideCells(g1)
        r  == computeFSRMaps(g2, 0, EmptyMap)
        g3 == [g2 EXCEPT !.num_FSRs = r.n,
                         !.region_maps = r.maps,
                         !.FSRs_to_cells = [k \in 1..r.n |-> NULL],
                         !.FSRs_to_materials = [k \in 1..r.n |-> NULL]]
    IN  IF g1.fatal THEN g1
        ELSE IF 0 \notin DOMAIN g2.universes THEN Error(g2)
        ELSE loadFSRMaps(g3, 0, junk)

\* a LocalCoords node
UnivNode(universe, cell, x, y) ==
    [type |-> "UNIV", universe |-> universe, cell |-> cell,
     lattice |-> NULL, lattice_x |-> NULL, lattice_y |-> NULL,
     x |-> x, y |-> y]

LatNode(lattice, j, i, x, y) ==
    [type |-> "LAT", universe |-> lattice, cell |-> NULL,
     lattice |-> lattice, lattice_x |-> j, lattice_y |-> i,
     x |-> x, y |-> y]

\* Geometry::findFSRId: coords is the chain from the head to the tail
RECURSIVE findFSRId(_, _)
findFSRId(g, coords) ==
    IF coords = <<>> THEN 0
    ELSE LET curr == Head(coords)
             here == IF curr.type = "LAT"
                     THEN getFSR(g, curr.lattice,
                                 <<curr.lattice_x, curr.lattice_y>>)
                     ELSE getFSR(g, curr.universe, curr.cell)
         IN  here + findFSRId(g, Tail(coords))

-----------------------------------------------------------------------------
(* Geometries, each built by a sequence of add* calls on a new Geometry *)

RECURSIVE Build(_, _)
Build(g, calls) ==
    IF calls = <<>> THEN g
    ELSE LET op == Head(calls)[1]
             arg == Head(calls)[2]
             g1 == CASE op = "addMaterial" -> addMaterial(g, arg)
                     [] op = "addSurface" -> addSurface(g, arg)
                     [] op = "addCell" -> addCell(g, arg)
                     [] op = "addUniverse" -> addUniverse(g, arg)
                     [] op = "addLattice" -> addLattice(g, arg)
         IN  Build(g1, Tail(calls))

\* the outer box [-4, 4] x [-4, 4] and the two planes through the origin
Left == Surface(1, "XPLANE", -4, "REFLECTIVE")
Right == Surface(2, "XPLANE", 4, "REFLECTIVE")
Bottom == Surface(3, "YPLANE", -4, "VACUUM")
Top == Surface(4, "YPLANE", 4, "VACUUM")
MidX == Surface(5, "XPLANE", 0, "BOUNDARY_NONE")
MidY == Surface(6, "YPLANE", 0, "BOUNDARY_NONE")

Box == {<<1, Left>>, <<-1, Right>>, <<1, Bottom>>, <<-1, Top>>}
LeftHalf == {<<1, Left>>, <<-1, MidX>>, <<1, Bottom>>, <<-1, Top>>}
RightHalf == {<<1, MidX>>, <<-1, Right>>, <<1, Bottom>>, <<-1, Top>>}

TwoMaterials ==
    <<<<"addMaterial", Material(1, 1, TRUE)>>,
      <<"addMaterial", Material(2, 1, TRUE)>>>>

\* universe u with one cell of material m covering its whole frame
Pin(cell, u, m) == <<<<"addCell", CellBasic(cell, u, m, {})>>>>

\* universe u split by the plane s into two cells of materials 1 and 2
SplitPin(cell, u, s) ==
    <<<<"addCell", CellBasic(cell, u, 1, {<<-1, s>>})>>,
      <<"addCell", CellBasic(cell + 1, u, 2, {<<1, s>>})>>>>

\* the 2 x 2 lattice of pitch 4 with ID 10
Lattice10(rows) == <<<<"addLattice", Lattice(10, 4, 4, rows)>>>>

GeomSingle ==
    Build(NewGeometry, TwoMaterials \o
        <<<<"addCell", CellBasic(1, 0, 1, Box)>>>>)

GeomHalfPlanes ==
    Build(NewGeometry, TwoMaterials \o
        <<<<"addCell", CellBasic(1, 0, 1, LeftHalf)>>,
          <<"addCell", CellBasic(2, 0, 2, RightHalf)>>>>)

GeomMatThenFill ==
    Build(NewGeometry, TwoMaterials \o
        <<<<"addCell", CellBasic(1, 0, 1, LeftHalf)>>,
          <<"addCell", CellFill(2, 0, 1, RightHalf)>>>>
        \o SplitPin(3, 1, MidY))

GeomFillThenMat ==
    Build(NewGeometry, TwoMaterials \o
        <<<<"addCell", CellFill(1, 0, 1, LeftHalf)>>,
          <<"addCell", CellBasic(2, 0, 2, RightHalf)>>>>
        \o SplitPin(3, 1, MidY))

GeomMatThenFillOne ==
    Build(NewGeometry, TwoMaterials \o
        <<<<"addCell", CellBasic(1, 0, 1, LeftHalf)>>,
          <<"addCell", CellFill(2, 0, 1, RightHalf)>>>>
        \o Pin(3, 1, 2))

GeomTwoFills ==
    Build(NewGeometry, TwoMaterials \o
        <<<<"addCell", CellFill(1, 0, 1, LeftHalf)>>,
          <<"addCell", CellFill(2, 0, 2, RightHalf)>>>>
        \o SplitPin(3, 1, MidY) \o SplitPin(5, 2, MidY))

GeomNestedSimple ==
    Build(NewGeometry, TwoMaterials \o
        <<<<"addCell", CellFill(1, 0, 1, Box)>>>>
        \o SplitPin(3, 1, MidX))

GeomLattice ==
    Build(NewGeometry, TwoMaterials \o Pin(3, 1, 1)
        \o Lattice10(<<<<1, 1>>, <<1, 1>>>>)
        \o <<<<"addCell", CellFill(1, 0, 10, Box)>>>>)

GeomLatticeTwoPins ==
    Build(NewGeometry, TwoMaterials \o Pin(3, 1, 1) \o Pin(4, 2, 2)
        \o Lattice10(<<<<1, 2>>, <<2, 1>>>>)
        \o <<<<"addCell", CellFill(1, 0, 10, Box)>>>>)

GeomLatticeSplitPins ==
    Build(NewGeometry, TwoMaterials \o SplitPin(3, 1, MidX)
        \o Lattice10(<<<<1, 1>>, <<1, 1>>>>)
        \o <<<<"addCell", CellFill(1, 0, 10, Box)>>>>)

GeomFillAboveLattice ==
    Build(NewGeometry, TwoMaterials \o Pin(3, 1, 1)
        \o Lattice10(<<<<1, 1>>, <<1, 1>>>>)
        \o <<<<"addCell", CellFill(1, 0, 2, Box)>>,
             <<"addCell", CellFill(2, 2, 10, {})>>>>)

GeomNestedLattice ==
    Build(NewGeometry, TwoMaterials \o Pin(3, 1, 1) \o Pin(4, 2, 2)
        \o <<<<"addLattice", Lattice(11, 2, 2, <<<<1, 2>>, <<2, 1>>>>)>>>>
        \o Lattice10(<<<<11, 1>>, <<2, 11>>>>)
        \o <<<<"addCell", CellFill(1, 0, 10, Box)>>>>)

GeomMissingFill ==
    Build(NewGeometry, TwoMaterials \o
        <<<<"addCell", CellBasic(1, 0, 1, LeftHalf)>>,
          <<"addCell", CellFill(2, 0, 7, RightHalf)>>>>)

\* the root is filled by universe 1, whose second cell names universe 9,
\* which is never added
GeomMissingFillBelow ==
    Build(NewGeometry, TwoMaterials \o
        <<<<"addCell", CellFill(1, 0, 1, Box)>>,
          <<"addCell", CellBasic(3, 1, 1, {<<-1, MidY>>})>>,
          <<"addCell", CellFill(4, 1, 9, {<<1, MidY>>})>>>>)

FSRGeometries ==
    {GeomSingle, GeomHalfPlanes, GeomMatThenFill, GeomFillThenMat,
     GeomMatThenFillOne, GeomTwoFills, GeomNestedSimple, GeomLattice,
     GeomLatticeTwoPins, GeomLatticeSplitPins, GeomFillAboveLattice,
     GeomNestedLattice, GeomMissingFill, GeomMissingFillBelow}

-----------------------------------------------------------------------------
(* FSR numbering and the lookups by FSR ID, on a finished geometry *)

\* how far beyond [0, num_FSRs) the FSR IDs passed to findCell go
FSRMargin == 2

\* the values a read of _material through a CellFill can give
Garbage == 0..2

\* the chains findCell(coords) can build: from the node of universe uid down to
\* a material cell (the local coordinates play no part in the FSR ID)
RECURSIVE ValidChains(_, _)
ValidChains(g, uid) ==
    IF g.universes[uid].type = "SIMPLE" THEN
        UNION {
          IF g.cells[c].type = "MATERIAL"
          THEN {<<UnivNode(uid, c, 0, 0)>>}
          ELSE {<<UnivNode(uid, c, 0, 0)>> \o t :
                   t \in ValidChains(g, g.cells[c].universe_fill)}
          : c \in g.universes[uid].cells}
    ELSE
        UNION {
          {<<LatNode(uid, ji[1], ji[2], 0, 0)>> \o t :
              t \in ValidChains(g, getLatticeUniverse(g.lattices[uid],
                                                      ji[1], ji[2]))}
          : ji \in Range(RowMajor(g.lattices[uid]))}

InitFSR ==
    /\ \E g \in FSRGeometries : GeoIs(g)
    /\ hist = [op |-> "build", arg |-> NULL, pre |-> NewGeometry, ret |-> NULL]
    /\ nops = 0
    /\ frames = EmptyMap

InitializeFlatSourceRegions ==
    /\ hist.op = "build"
    /\ \E junk \in Garbage :
          Call("initializeFlatSourceRegions", junk,
               initializeFlatSourceRegions(Geo, junk))

Initialized == hist.op # "build" /\ ~fatal

\* findCell(Universe*, int) called on the root universe
FindCell(fsr_id) ==
    /\ Initialized
    /\ LET r == findCellFSR(Geo, 0, fsr_id)
       IN  /\ fatal' = r.fatal
           /\ hist' = [op |-> "findCell", arg |-> fsr_id, pre |-> Geo,
                       ret |-> r.cell]
    /\ UNCHANGED <<nops, materials, surfaces, cells, universes, lattices,
                   x_min, x_max, y_min, y_max,
                   top_bc, bottom_bc, left_bc, right_bc, num_groups,
                   num_FSRs, FSRs_to_cells, FSRs_to_materials, region_maps,
                   max_seg_length, min_seg_length, frames>>

FindFSRId(coords) ==
    /\ Initialized
    /\ hist' = [op |-> "findFSRId", arg |-> coords, pre |-> Geo,
                ret |-> findFSRId(Geo, coords)]
    /\ UNCHANGED <<geoVars, nops, frames>>

NextFSR ==
    \/ InitializeFlatSourceRegions
    \/ \E fsr_id \in (0 - FSRMargin)..(num_FSRs + FSRMargin - 1) :
          FindCell(fsr_id)
    \/ \E coords \in (IF Initialized THEN ValidChains(Geo, 0) ELSE {}) :
          FindFSRId(coords)

SpecFSR == InitFSR /\ [][NextFSR]_vars

-----------------------------------------------------------------------------
(* Properties of the FSR numbering *)

\* every reference of the hierarchy resolves and no universe is empty
ValidHierarchy(g) ==
    /\ 0 \in DOMAIN g.universes
    /\ \A c \in DOMAIN g.cells :
          g.cells[c].type = "FILL" =>
              g.cells[c].universe_fill \in DOMAIN g.universes
    /\ \A u \in DOMAIN g.universes :
          g.universes[u].type = "SIMPLE" => g.universes[u].cells # {}

\* the floor search: at each level the child with the greatest FSR offset
\* <= r, the offset subtracted from r; NULL when r does not name a region
RECURSIVE FloorSearch(_, _, _)
FloorSearch(g, uid, r) ==
    LET keys == DOMAIN g.region_maps[uid]
        below == {k \in keys : g.region_maps[uid][k] <= r}
        k == CHOOSE k \in below :
                \A k2 \in below :
                    g.region_maps[uid][k2] <= g.region_maps[uid][k]
        rest == r - g.region_maps[uid][k]
    IN  IF below = {} THEN NULL
        ELSE IF g.universes[uid].type = "LATTICE"
             THEN FloorSearch(g, getLatticeUniverse(g.lattices[uid], k[1], k[2]),
                              rest)
        ELSE IF g.cells[k].type = "FILL"
             THEN FloorSearch(g, g.cells[k].universe_fill, rest)
        ELSE IF rest = 0 THEN k ELSE NULL

AfterInitialize == hist.op = "initializeFlatSourceRegions"

\* C1: on a valid hierarchy initializeFlatSourceRegions ends without a fatal
\* error and every entry of FSRs_to_cells is the ID of the material cell the
\* floor search gives.
C1_FSRsToMaterialCells ==
    (AfterInitialize /\ ValidHierarchy(hist.pre)) =>
        /\ ~fatal
        /\ \A r \in 0..(num_FSRs - 1) :
              /\ FSRs_to_cells[r + 1] \in DOMAIN cells
              /\ cells[FSRs_to_cells[r + 1]].type = "MATERIAL"
              /\ FSRs_to_cells[r + 1] = FloorSearch(Geo, 0, r)

TailCell(coords) == coords[Len(coords)].cell

\* C2: for every valid chain, findFSRId gives an r in [0, num_FSRs), findCell
\* of r returns the chain's material cell, FSRs_to_cells[r] is its ID, and no
\* two chains get the same r.
C2_RoundTrip ==
    (AfterInitialize /\ ~fatal) =>
        \A coords \in ValidChains(Geo, 0) :
            LET r == findFSRId(Geo, coords)
            IN  /\ r \in 0..(num_FSRs - 1)
                /\ findCellFSR(Geo, 0, r) = Found(TailCell(coords))
                /\ FSRs_to_cells[r + 1] = TailCell(coords)
                /\ \A other \in ValidChains(Geo, 0) :
                      other # coords => findFSRId(Geo, other) # r

\* C5: after initializeFlatSourceRegions every entry of FSRs_to_materials is
\* the material ID of the cell named by the same entry of FSRs_to_cells.
C5_InverseMapsConsistent ==
    (AfterInitialize /\ ~fatal) =>
        \A r \in 0..(num_FSRs - 1) :
            FSRs_to_materials[r + 1] = cells[FSRs_to_cells[r + 1]].material

-----------------------------------------------------------------------------
(* Point location and ray stepping.  Lengths are whole multiples of
   TINY_MOVE and rays run along an axis, so every distance is exact. *)

TINY_MOVE == 1

\* the azimuthal angles of the tracks, in degrees
Angles == {0, 90}

cos(angle) == IF angle = 0 THEN 1 ELSE 0

sin(angle) == IF angle = 90 THEN 1 ELSE 0

abs(n) == IF n < 0 THEN 0 - n ELSE n

\* the element of a one-element set; {e(x) : x \in {v}} computes v once
TheOnly(S) == CHOOSE x \in S : TRUE

Point(x, y) == [x |-> x, y |-> y]

getPoint(node) == Point(node.x, node.y)

\* Point::distance, for two points on a line parallel to an axis
distance(p, q) == abs(p.x - q.x) + abs(p.y - q.y)

\* LocalCoords(x, y) followed by setUniverse(0)
LocalCoords(x, y) == <<UnivNode(0, NULL, x, y)>>

getLowestLevel(coords) == coords[Len(coords)]

\* LocalCoords::adjustCoords moves every node of the chain
RECURSIVE adjustCoords(_, _, _)
adjustCoords(coords, delta_x, delta_y) ==
    IF coords = <<>> THEN <<>>
    ELSE <<[Head(coords) EXCEPT !.x = @ + delta_x, !.y = @ + delta_y]>>
         \o adjustCoords(Tail(coords), delta_x, delta_y)

\* LocalCoords::updateMostLocal puts the lowest node on the point, moving the
\* whole chain with it
updateMostLocal(coords, p) ==
    adjustCoords(coords, p.x - getLowestLevel(coords).x,
                 p.y - getLowestLevel(coords).y)

\* prune() called on node k: the nodes below it are destroyed
prune(coords, k) == SubSeq(coords, 1, k)

\* Surface::evaluate
evaluate(s, p) ==
    CASE s.kind = "XPLANE" -> p.x - s.c
      [] s.kind = "YPLANE" -> p.y - s.c
      [] s.kind = "CIRCLE" -> p.x * p.x + p.y * p.y - s.c * s.c

\* the half a point is in
side(s, p) == IF evaluate(s, p) >= 0 THEN 1 ELSE 0 - 1

\* Cell::cellContains; the key of a surface is halfspace * surface ID
cellContains(c, p) ==
    \A k \in DOMAIN c.surfaces :
        side(c.surfaces[k], p) = (IF k > 0 THEN 1 ELSE 0 - 1)

\* Surface::getMinDistance for the planes: the distance to the plane along the
\* ray, Infinity if the plane is not ahead
getMinDistance(s, p, angle) ==
    CASE s.kind = "XPLANE" ->
            IF (s.c - p.x) * cos(angle) > 0 THEN abs(s.c - p.x) ELSE Infinity
      [] s.kind = "YPLANE" ->
            IF (s.c - p.y) * sin(angle) > 0 THEN abs(s.c - p.y) ELSE Infinity

\* Cell::minSurfaceDist: the least distance and the intersection point
minSurfaceDist(c, p, angle) ==
    LET dists == {getMinDistance(c.surfaces[k], p, angle) :
                     k \in DOMAIN c.surfaces} \cup {Infinity}
        dist == Min(dists)
    IN  [dist |-> dist,
         point |-> IF dist = Infinity THEN p
                   ELSE Point(p.x + dist * cos(angle),
                              p.y + dist * sin(angle))]

RECURSIVE locate(_, _, _)

\* Universe::findCell on the lowest node of the chain
universeFindCell(g, uid, coords) ==
    LET k == Len(coords)
        hits == {c \in g.universes[uid].cells :
                    cellContains(g.cells[c], getPoint(coords[k]))}
        c == Min(hits)
        here == [coords EXCEPT ![k].cell = c]
        fill == g.cells[c].universe_fill
    IN  IF hits = {} THEN [cell |-> NULL, coords |-> coords]
        ELSE IF g.cells[c].type = "MATERIAL"
             THEN [cell |-> c, coords |-> here]
        ELSE locate(g, fill,
                    Append(here, UnivNode(fill, NULL, coords[k].x, coords[k].y)))

\* Lattice::findCell on the lowest node of the chain; the lattice is centred
\* on the origin of its frame
latticeFindCell(g, uid, coords) ==
    LET k == Len(coords)
        l == g.lattices[uid]
        origin_x == 0 - ((l.num_x * l.width_x) \div 2)
        origin_y == 0 - ((l.num_y * l.width_y) \div 2)
        j == (coords[k].x - origin_x) \div l.width_x
        i == (coords[k].y - origin_y) \div l.width_y
        x == coords[k].x - (origin_x + j * l.width_x + (l.width_x \div 2))
        y == coords[k].y - (origin_y + i * l.width_y + (l.width_y \div 2))
        here == [coords EXCEPT ![k] = LatNode(uid, j, i, x, y)]
        child == getLatticeUniverse(l, j, i)
    IN  IF j < 0 \/ j >= l.num_x \/ i < 0 \/ i >= l.num_y
        THEN [cell |-> NULL, coords |-> coords]
        ELSE locate(g, child, Append(here, UnivNode(child, NULL, x, y)))

locate(g, uid, coords) ==
    IF g.universes[uid].type = "SIMPLE"
    THEN universeFindCell(g, uid, coords)
    ELSE latticeFindCell(g, uid, coords)

\* Geometry::findCell(LocalCoords*): the chain is rebuilt from its head
findCell(g, coords) == locate(g, coords[1].universe, <<coords[1]>>)

\* Geometry::findFirstCell
findFirstCell(g, coords, angle) ==
    LET delta_x == cos(angle) * TINY_MOVE
        delta_y == sin(angle) * TINY_MOVE
    IN  findCell(g, adjustCoords(coords, delta_x, delta_y))

\* Lattice::findNextLatticeCell on the lowest node of the chain, a LATTICE
\* node: the chain is moved to the edge of the lattice cell ahead plus
\* TINY_MOVE, then the neighbour is entered, or NULL is returned if there is
\* none
findNextLatticeCell(g, coords, angle) ==
    LET k == Len(coords)
        curr == coords[k]
        l == g.lattices[curr.lattice]
        dist == IF angle = 0 THEN (l.width_x \div 2) - curr.x
                ELSE (l.width_y \div 2) - curr.y
        moved == adjustCoords(coords, (dist + TINY_MOVE) * cos(angle),
                              (dist + TINY_MOVE) * sin(angle))
        j == curr.lattice_x + cos(angle)
        i == curr.lattice_y + sin(angle)
        x == moved[k].x - l.width_x * cos(angle)
        y == moved[k].y - l.width_y * sin(angle)
        here == [moved EXCEPT ![k] = LatNode(curr.lattice, j, i, x, y)]
        child == getLatticeUniverse(l, j, i)
    IN  IF dist <= 0 THEN [cell |-> NULL, coords |-> coords]
        ELSE IF j >= l.num_x \/ i >= l.num_y
             THEN [cell |-> NULL, coords |-> moved]
        ELSE locate(g, child, Append(here, UnivNode(child, NULL, x, y)))

-----------------------------------------------------------------------------
(* Geometry::findNextCell *)

\* the parallel walk up the saved chain and the new chain, from node a of
\* test and node b of coords: TRUE if it meets two LATTICE nodes with
\* different lattice cells
RECURSIVE inNewLatticeCell(_, _, _, _)
inNewLatticeCell(test, coords, a, b) ==
    IF a < 1 \/ b < 1 THEN FALSE
    ELSE IF test[a].universe = 0 \/ coords[b].universe = 0 THEN FALSE
    ELSE IF /\ coords[b].type = "LAT"
            /\ test[a].type = "LAT"
            /\ \/ coords[b].lattice_x # test[a].lattice_x
               \/ coords[b].lattice_y # test[a].lattice_y
         THEN TRUE
    ELSE inNewLatticeCell(test, coords, a - 1, b - 1)

\* the retrace from node k towards the head: the chain is pruned at the first
\* LATTICE node met above node k
RECURSIVE retrace(_, _)
retrace(coords, k) ==
    IF coords[k].universe = 0 THEN coords
    ELSE IF coords[k - 1].type = "LAT" THEN prune(coords, k - 1)
    ELSE retrace(coords, k - 1)

\* the loop over the lattices of the chain, from its lowest node.  A lowest
\* node that is neither the root node nor a LATTICE node is never replaced:
\* the loop does not end (hang).
RECURSIVE latticeLoop(_, _, _)
latticeLoop(g, coords, angle) ==
    LET k == Len(coords)
        curr == coords[k]
    IN  IF curr.universe = 0
        THEN [cell |-> NULL, coords |-> coords, hang |-> FALSE]
        ELSE IF curr.type # "LAT"
             THEN [cell |-> NULL, coords |-> coords, hang |-> TRUE]
        ELSE TheOnly({
               IF next.cell = NULL
               THEN latticeLoop(g, retrace(prune(next.coords, k - 1), k - 1),
                                angle)
               ELSE [cell |-> next.cell, coords |-> next.coords,
                     hang |-> FALSE]
               : next \in {findNextLatticeCell(g, coords, angle)}})

\* the chain moved to the point on the surface ahead plus TINY_MOVE, and the
\* cell found there
relocate(g, coords, surf_intersection, angle) ==
    LET delta_x == cos(angle) * TINY_MOVE
        delta_y == sin(angle) * TINY_MOVE
    IN  findCell(g, adjustCoords(updateMostLocal(coords, surf_intersection),
                                 delta_x, delta_y))

\* variant: the cell found after the move is returned with the chain saved
\* before the move
findNextCellFrom_returnsSavedChain(g, first, angle) ==
    LET test == first.coords
        lowest_level == getLowestLevel(first.coords)
        stepping == latticeLoop(g, retrace(test, Len(test)), angle)
    IN  TheOnly({
          IF surf.dist = Infinity THEN stepping
          ELSE TheOnly({
                 IF /\ found.cell # NULL
                    /\ ~inNewLatticeCell(test, found.coords, Len(test),
                                         Len(found.coords))
                 THEN [cell |-> found.cell, coords |-> test, hang |-> FALSE]
                 ELSE stepping
                 : found \in {relocate(g, first.coords, surf.point, angle)}})
          : surf \in {minSurfaceDist(g.cells[first.cell],
                                     getPoint(lowest_level), angle)}})

\* the part of findNextCell after the current cell was found: first is the
\* result of findCell, test the chain saved before the move
findNextCellFrom(g, first, angle) ==
    LET test == first.coords
        lowest_level == getLowestLevel(first.coords)
        stepping == latticeLoop(g, retrace(test, Len(test)), angle)
    IN  TheOnly({
          IF surf.dist = Infinity THEN stepping
          ELSE TheOnly({
                 IF /\ found.cell # NULL
                    /\ ~inNewLatticeCell(test, found.coords, Len(test),
                                         Len(found.coords))
                 THEN [cell |-> found.cell, coords |-> found.coords,
                       hang |-> FALSE]
                 ELSE stepping
                 : found \in {relocate(g, first.coords, surf.point, angle)}})
          : surf \in {minSurfaceDist(g.cells[first.cell],
                                     getPoint(lowest_level), angle)}})

findNextCell(g, coords, angle) ==
    TheOnly({
      IF first.cell = NULL
      THEN [cell |-> NULL, coords |-> first.coords, hang |-> FALSE]
      ELSE findNextCellFrom(g, first, angle)
      : first \in {findCell(g, coords)}})

-----------------------------------------------------------------------------
(* Geometry::segmentize *)

Track(x, y, phi) == [x |-> x, y |-> y, phi |-> phi]

\* the frame of one segmentize call.  pc is the place the call has reached,
\* spans the start and end point of every segment appended to the track and
\* seen the value of a statistic read by the call.
Frame(track, pc, segment_start, segment_end, curr) ==
    [track |-> track, pc |-> pc, segment_start |-> segment_start,
     segment_end |-> segment_end, curr |-> curr, prev |-> NULL,
     segment_length |-> 0, new_segment |-> NULL, seen |-> NULL,
     segments |-> <<>>, spans |-> <<>>]

\* variant: a start point in no cell gives a track without segments
segmentizeEnter_noStartCheck(g, track) ==
    TheOnly({
      [geo |-> g,
       frame |-> Frame(track, IF first.cell = NULL THEN "done" ELSE "loop",
                       LocalCoords(track.x, track.y), first.coords,
                       first.cell)]
      : first \in {findFirstCell(g, LocalCoords(track.x, track.y),
                                 track.phi)}})

\* from the entry to the test of the loop
segmentizeEnter(g, track) ==
    TheOnly({
      [geo |-> IF first.cell = NULL THEN Error(g) ELSE g,
       frame |-> Frame(track, IF first.cell = NULL THEN "fatal" ELSE "loop",
                       LocalCoords(track.x, track.y), first.coords,
                       first.cell)]
      : first \in {findFirstCell(g, LocalCoords(track.x, track.y),
                                 track.phi)}})

\* variant: the length is measured from the start point of the track
segmentizeAdvance_lengthFromTrackStart(g, f) ==
    LET segment_start == f.segment_end
        prev == f.curr
        segment_length(next) == distance(getPoint(next.coords[1]),
                                         Point(f.track.x, f.track.y))
    IN  TheOnly({
          [f EXCEPT !.pc = IF next.hang THEN "hang" ELSE "statistics",
                    !.segment_start = segment_start,
                    !.prev = prev,
                    !.curr = next.cell,
                    !.segment_end = next.coords,
                    !.segment_length = segment_length(next),
                    !.new_segment = [length |-> segment_length(next),
                                     material |-> g.cells[prev].material,
                                     region_id |-> NULL]]
          : next \in {findNextCell(g, f.segment_end, f.track.phi)}})

\* the advance of segment_end to the next cell and the new segment
segmentizeAdvance(g, f) ==
    LET segment_start == f.segment_end
        prev == f.curr
        segment_length(next) == distance(getPoint(next.coords[1]),
                                         getPoint(segment_start[1]))
    IN  TheOnly({
          [f EXCEPT !.pc = IF next.hang THEN "hang" ELSE "statistics",
                    !.segment_start = segment_start,
                    !.prev = prev,
                    !.curr = next.cell,
                    !.segment_end = next.coords,
                    !.segment_length = segment_length(next),
                    !.new_segment = [length |-> segment_length(next),
                                     material |-> g.cells[prev].material,
                                     region_id |-> NULL]]
          : next \in {findNextCell(g, f.segment_end, f.track.phi)}})

\* if (segment_length > _max_seg_length) _max_seg_length = segment_length
updateMaxSegLength(g, seen, segment_length) ==
    IF segment_length > seen
    THEN [g EXCEPT !.max_seg_length = segment_length] ELSE g

\* variant: _min_seg_length is assigned without the comparison
updateMinSegLength_lastLength(g, seen, segment_length) ==
    [g EXCEPT !.min_seg_length = segment_length]

\* if (segment_length < _min_seg_length) _min_seg_length = segment_length
updateMinSegLength(g, seen, segment_length) ==
    IF segment_length < seen
    THEN [g EXCEPT !.min_seg_length = segment_length] ELSE g

\* a test for a zero-length segment that never finds one
sameStartAndEnd_never(f) == FALSE

\* the test for a segment with the same start and end point
sameStartAndEnd(f) ==
    /\ f.segment_start[1].x = f.segment_end[1].x
    /\ f.segment_start[1].y = f.segment_end[1].y

\* variant: the two chains are left as the loop built them
segmentizeReturn_noPrune(f) == [f EXCEPT !.pc = "done"]

\* the statements after the loop: both chains are pruned at their heads
segmentizeReturn(f) ==
    [f EXCEPT !.pc = "done",
              !.segment_start = prune(@, 1),
              !.segment_end = prune(@, 1)]

\* the region ID, the test for a zero-length segment and addSegment
segmentizeAppend(g, f) ==
    LET new_segment == [f.new_segment EXCEPT
                           !.region_id = findFSRId(g, f.segment_start)]
    IN  IF sameStartAndEnd(f)
        THEN [geo |-> Error(g),
              frame |-> [f EXCEPT !.pc = "fatal", !.new_segment = new_segment]]
        ELSE LET f1 == [f EXCEPT
                  !.pc = "loop",
                  !.new_segment = new_segment,
                  !.segments = Append(@, new_segment),
                  !.spans = Append(@, <<getPoint(f.segment_start[1]),
                                        getPoint(f.segment_end[1])>>)]
             IN  [geo |-> g,
                  frame |-> IF f.curr # NULL THEN f1 ELSE segmentizeReturn(f1)]

\* one pass through the loop of segmentize, with no other thread running
segmentizeIteration(g, f) ==
    LET updated(f1) ==
            updateMinSegLength(
                updateMaxSegLength(g, g.max_seg_length, f1.segment_length),
                g.min_seg_length, f1.segment_length)
    IN  TheOnly({
          IF f1.pc = "hang" THEN [geo |-> g, frame |-> f1]
          ELSE segmentizeAppend(updated(f1), f1)
          : f1 \in {segmentizeAdvance(g, f)}})

-----------------------------------------------------------------------------
(* Ray tracing on a finished geometry: segmentize calls made one at a time *)

\* how many segmentize calls are made
MaxTracks == 2

\* a lattice with a split pin and a whole pin in each row
GeomLatticeMixed ==
    Build(NewGeometry, TwoMaterials \o SplitPin(3, 1, MidX) \o Pin(5, 2, 2)
        \o Lattice10(<<<<1, 2>>, <<2, 1>>>>)
        \o <<<<"addCell", CellFill(1, 0, 10, Box)>>>>)

\* the right edge of a lattice cell of pitch 4, in the frame of the cell
PinEdge == Surface(7, "XPLANE", 2, "BOUNDARY_NONE")

\* a lattice whose left column holds a pin bounded by the edge of its lattice
\* cell and whose right column holds a universe filled by a pin, so that the
\* chains of neighbouring lattice cells differ in length
GeomLatticeDeepPin ==
    Build(NewGeometry, TwoMaterials \o
        <<<<"addCell", CellBasic(3, 1, 1, {<<-1, PinEdge>>})>>,
          <<"addCell", CellFill(4, 2, 3, {})>>>>
        \o Pin(5, 3, 2)
        \o Lattice10(<<<<1, 2>>, <<1, 2>>>>)
        \o <<<<"addCell", CellFill(1, 0, 10, Box)>>>>)

\* the fill cell has the lower ID and the right half, so that a ray along x
\* passes from the material cell of the root universe into the fill cell
GeomMatLeftOfFill ==
    Build(NewGeometry, TwoMaterials \o
        <<<<"addCell", CellFill(1, 0, 1, RightHalf)>>,
          <<"addCell", CellBasic(2, 0, 2, LeftHalf)>>>>
        \o SplitPin(3, 1, MidY))

SegGeometries ==
    {GeomSingle, GeomHalfPlanes, GeomMatThenFill, GeomFillThenMat,
     GeomMatThenFillOne, GeomTwoFills, GeomNestedSimple, GeomLattice,
     GeomLatticeTwoPins, GeomLatticeSplitPins, GeomFillAboveLattice,
     GeomMissingFill, GeomMissingFillBelow, GeomLatticeMixed,
     GeomLatticeDeepPin, GeomMatLeftOfFill}

\* tracks from the left and the bottom edge of the box, from its inside and
\* from its right edge, where the nudge takes the start out of the box
TrackPool ==
    {Track(-4, 1, 0), Track(-4, -3, 0), Track(-3, -4, 90), Track(1, -4, 90),
     Track(-1, -3, 0), Track(4, 1, 0)}

\* a segmentize call is in its loop
Running == \E k \in DOMAIN frames : frames[k].pc \in {"loop", "hang"}

InitSeg ==
    /\ \E g \in SegGeometries : GeoIs(g)
    /\ hist = [op |-> "build", arg |-> NULL, pre |-> NewGeometry, ret |-> NULL]
    /\ nops = 0
    /\ frames = <<>>

\* the step of call t that takes its frame to f and the geometry to g
CallStep(t, g, f) ==
    /\ \E after \in {g} : SetGeo(after)
    /\ frames' = [frames EXCEPT ![t] = f]
    /\ UNCHANGED <<hist, nops>>

\* a call of segmentize, made when no other call is running: from the entry
\* to the test of the loop
Segmentize(track) ==
    /\ Initialized
    /\ ~Running
    /\ Len(frames) < MaxTracks
    /\ \E r \in {segmentizeEnter(Geo, track)} :
          /\ SetGeo(r.geo)
          /\ frames' = Append(frames, r.frame)
    /\ hist' = [op |-> "segmentize", arg |-> track, pre |-> Geo, ret |-> NULL]
    /\ UNCHANGED nops

\* one pass through the loop of the running call
SegmentizeLoop(t) ==
    /\ ~fatal
    /\ frames[t].pc = "loop"
    /\ \E r \in {segmentizeIteration(Geo, frames[t])} :
          CallStep(t, r.geo, r.frame)

NextSeg ==
    \/ InitializeFlatSourceRegions
    \/ \E track \in TrackPool : Segmentize(track)
    \/ \E t \in DOMAIN frames : SegmentizeLoop(t)

SpecSeg == InitSeg /\ [][NextSeg]_vars

-----------------------------------------------------------------------------
(* Ray tracing by several threads, each on its own track.  A thread's step is
   one read or one write of a statistic, or the code between two of them. *)

NumThreads == 2

ConcGeometries == {GeomLattice, GeomLatticeMixed}

ConcTracks == {Track(-4, 1, 0), Track(-4, -3, 0), Track(-3, -4, 90)}

InitConc ==
    /\ \E g \in ConcGeometries : GeoIs(g)
    /\ hist = [op |-> "build", arg |-> NULL, pre |-> NewGeometry, ret |-> NULL]
    /\ nops = 0
    /\ frames = <<>>

\* a thread enters segmentize with a track no other thread has
Enter(track) ==
    /\ Initialized
    /\ Len(frames) < NumThreads
    /\ \A k \in DOMAIN frames : frames[k].track # track
    /\ \E r \in {segmentizeEnter(Geo, track)} :
          /\ SetGeo(r.geo)
          /\ frames' = Append(frames, r.frame)
    /\ hist' = [op |-> "segmentize", arg |-> track, pre |-> Geo, ret |-> NULL]
    /\ UNCHANGED nops

Advance(t) ==
    /\ ~fatal
    /\ frames[t].pc = "loop"
    /\ CallStep(t, Geo, segmentizeAdvance(Geo, frames[t]))

ReadMax(t) ==
    /\ ~fatal
    /\ frames[t].pc = "statistics"
    /\ CallStep(t, Geo, [frames[t] EXCEPT !.pc = "write_max",
                                            !.seen = max_seg_length])

WriteMax(t) ==
    /\ ~fatal
    /\ frames[t].pc = "write_max"
    /\ CallStep(t, updateMaxSegLength(Geo, frames[t].seen,
                                        frames[t].segment_length),
                  [frames[t] EXCEPT !.pc = "read_min"])

ReadMin(t) ==
    /\ ~fatal
    /\ frames[t].pc = "read_min"
    /\ CallStep(t, Geo, [frames[t] EXCEPT !.pc = "write_min",
                                            !.seen = min_seg_length])

WriteMin(t) ==
    /\ ~fatal
    /\ frames[t].pc = "write_min"
    /\ CallStep(t, updateMinSegLength(Geo, frames[t].seen,
                                        frames[t].segment_length),
                  [frames[t] EXCEPT !.pc = "append"])

AppendSegment(t) ==
    /\ ~fatal
    /\ frames[t].pc = "append"
    /\ LET r == segmentizeAppend(Geo, frames[t])
       IN  CallStep(t, r.geo, r.frame)

NextConc ==
    \/ InitializeFlatSourceRegions
    \/ \E track \in ConcTracks : Enter(track)
    \/ \E t \in DOMAIN frames : Advance(t)
    \/ \E t \in DOMAIN frames : ReadMax(t)
    \/ \E t \in DOMAIN frames : WriteMax(t)
    \/ \E t \in DOMAIN frames : ReadMin(t)
    \/ \E t \in DOMAIN frames : WriteMin(t)
    \/ \E t \in DOMAIN frames : AppendSegment(t)

SpecConc == InitConc /\ [][NextConc]_vars

-----------------------------------------------------------------------------
(* Properties of segmentize *)

\* the root universe holds material cells only
RootOnlyMaterial(g) ==
    \A c \in g.universes[0].cells : g.cells[c].type = "MATERIAL"

\* the cell containing the point (x, y) of the root frame, NULL if none
CellAt(g, x, y) == findCell(g, LocalCoords(x, y)).cell

\* the cell containing the n-th point of the ray from (x, y)
RayCell(g, x, y, phi, n) ==
    CellAt(g, x + n * cos(phi) * TINY_MOVE, y + n * sin(phi) * TINY_MOVE)

\* the cells the ray from (x, y) passes through until it leaves the geometry,
\* in order along the ray, found by locating every point of the ray: the ray
\* is inside for the first `inside` points and enters a cell at the points
\* of `entries`
CellsCrossed(g, x, y, phi) ==
    LET reach == (g.x_max - g.x_min) + (g.y_max - g.y_min)
        outside == {n \in 0..reach : RayCell(g, x, y, phi, n) = NULL}
        inside == Min(outside)
        entries == {n \in 0..(inside - 1) :
                       \/ n = 0
                       \/ RayCell(g, x, y, phi, n) # RayCell(g, x, y, phi, n - 1)}
        nth(k) == CHOOSE n \in entries :
                      Cardinality({m \in entries : m < n}) = k - 1
    IN  [k \in 1..Cardinality(entries) |-> RayCell(g, x, y, phi, nth(k))]

\* the cells crossed by a track, from its nudged start
TrackCells(g, track) ==
    CellsCrossed(g, track.x + cos(track.phi) * TINY_MOVE,
                 track.y + sin(track.phi) * TINY_MOVE, track.phi)

\* C3: for a track that starts inside a geometry whose root universe holds
\* only material cells, segmentize leaves its loop normally, with no fatal
\* error, having appended one segment per material cell crossed, in order
\* along the ray.
C3_SegmentPerCellCrossed ==
    \A k \in DOMAIN frames :
        LET f == frames[k]
            crossed == TrackCells(Geo, f.track)
        IN  (RootOnlyMaterial(Geo) /\ crossed # <<>> /\ f.pc # "loop") =>
                /\ ~fatal
                /\ f.pc = "done"
                /\ Len(f.segments) = Len(crossed)
                /\ \A n \in DOMAIN f.segments :
                      f.segments[n].material = cells[crossed[n]].material

\* C4: every segment appended to a track by segmentize, in a completed or an
\* aborted call, has a length > 0 and different start and end points.
C4_NoZeroLengthSegment ==
    \A k \in DOMAIN frames :
        \A n \in DOMAIN frames[k].segments :
            /\ frames[k].segments[n].length > 0
            /\ frames[k].spans[n][1] # frames[k].spans[n][2]

\* a call that met a segment with the same start and end point after it had
\* appended a segment
C4_Witness ==
    \E k \in DOMAIN frames :
        /\ frames[k].pc = "fatal"
        /\ sameStartAndEnd(frames[k])
        /\ frames[k].segment_length = 0
        /\ Len(frames[k].segments) >= 1

\* the lengths of the segments produced by all the calls
AllLengths ==
    UNION {{frames[k].segments[n].length : n \in DOMAIN frames[k].segments} :
              k \in DOMAIN frames}

AllFinished ==
    /\ Len(frames) = NumThreads
    /\ \A k \in DOMAIN frames : frames[k].pc = "done"

\* C6: once all the concurrent calls have finished, max_seg_length is the
\* maximum and min_seg_length the minimum of the lengths of all the segments
\* they produced.
C6_NoLostStatistic ==
    AllFinished =>
        /\ max_seg_length = Max(AllLengths)
        /\ min_seg_length = Min(AllLengths)

-----------------------------------------------------------------------------
(* Claims about the references between the registries *)

\* the surfaces, the universe and the material that cell c names are registered
CellReferences(g, c) ==
    /\ \A k \in DOMAIN c.surfaces : c.surfaces[k].id \in DOMAIN g.surfaces
    /\ c.universe \in DOMAIN g.universes
    /\ c.id \in g.universes[c.universe].cells
    /\ c.type = "MATERIAL" => c.material \in DOMAIN g.materials

\* C11: after any sequence of add* calls every registered cell has its
\* surfaces in the surface registry, a universe with its universe ID that
\* contains it in the universe registry and, if it is a material cell, its
\* material in the material registry; addCell of a material cell whose
\* material is not registered is fatal and registers nothing.
C11_CellReferentialIntegrity ==
    /\ \A id \in DOMAIN cells : CellReferences(Geo, cells[id])
    /\ (/\ hist.op = "addCell"
        /\ hist.arg.type = "MATERIAL"
        /\ hist.arg.material \notin DOMAIN hist.pre.materials)
          => fatal /\ Registries(Geo) = Registries(hist.pre)

\* a fill cell brought its surface and its universe with it, next to a
\* material cell whose material had been registered before
C11_Witness ==
    /\ hist.op = "addCell"
    /\ ~fatal
    /\ hist.arg.type = "FILL"
    /\ hist.arg.universe \notin DOMAIN hist.pre.universes
    /\ DOMAIN hist.pre.surfaces = {}
    /\ DOMAIN surfaces # {}
    /\ \E id \in DOMAIN cells : cells[id].type = "MATERIAL"

\* C12: after any sequence of add* calls every ID of the lattice registry is
\* in the universe registry too and names the lattice there; addLattice with a
\* child universe ID that is not registered is fatal and enters the lattice
\* into neither registry.
C12_LatticesAreUniverses ==
    /\ \A id \in DOMAIN lattices :
          /\ id \in DOMAIN universes
          /\ universes[id] =
                [AsUniverse(lattices[id]) EXCEPT !.cells = universes[id].cells]
    /\ (/\ hist.op = "addLattice"
        /\ \E u \in LatticeChildren(hist.arg) :
              u \notin DOMAIN hist.pre.universes)
          => /\ fatal
             /\ lattices = hist.pre.lattices
             /\ universes = hist.pre.universes

\* a lattice whose children are registered was added and is in both registries
C12_Witness ==
    /\ hist.op = "addLattice"
    /\ ~fatal
    /\ hist.arg.id \notin DOMAIN hist.pre.universes
    /\ LatticeChildren(hist.arg) \subseteq DOMAIN universes
    /\ lattices[hist.arg.id] = hist.arg
    /\ universes[hist.arg.id].type = "LATTICE"

-----------------------------------------------------------------------------
(* Claims about the errors of the FSR numbering and of findCell *)

\* a registered fill cell of g names a universe that is not registered
MissingFill(g) ==
    \E id \in DOMAIN g.cells :
        /\ g.cells[id].type = "FILL"
        /\ g.cells[id].universe_fill \notin DOMAIN g.universes

\* C13: if a registered fill cell names a universe ID that is not in the
\* universe registry, initializeFlatSourceRegions ends in a fatal error in its
\* first step: num_FSRs is still 0, neither inverse map has been allocated or
\* written and no universe has been numbered.
C13_MissingFillAbortsFirst ==
    (AfterInitialize /\ MissingFill(hist.pre))
        => /\ fatal
           /\ num_FSRs = 0
           /\ FSRs_to_cells = <<>>
           /\ FSRs_to_materials = <<>>
           /\ region_maps = EmptyMap

\* the missing universe is named by the last cell of the registry, a cell of
\* universe 1, after a fill cell that could be resolved
C13_Witness ==
    /\ AfterInitialize
    /\ MissingFill(hist.pre)
    /\ \E id \in DOMAIN hist.pre.cells :
          /\ hist.pre.cells[id].type = "FILL"
          /\ hist.pre.cells[id].universe_fill \in DOMAIN hist.pre.universes
    /\ fatal

\* C14: findCell(fsr_id) ends in a fatal error and returns no cell for every
\* fsr_id outside [0, num_FSRs), fsr_id = -1 and fsr_id = num_FSRs included.
C14_OutOfRangeFatal ==
    (/\ hist.op = "findCell"
     /\ (hist.arg < 0 \/ hist.arg >= num_FSRs))
        => fatal /\ hist.ret = NULL

-----------------------------------------------------------------------------
(* Claims about the effects of segmentize *)

\* the last call is a segmentize call
InSegmentize == hist.op = "segmentize"

\* the frame of the last segmentize call
LastFrame == frames[Len(frames)]

\* findFirstCell gave no cell for the track of the last call
StartInNoCell ==
    findFirstCell(hist.pre, LocalCoords(hist.arg.x, hist.arg.y),
                  hist.arg.phi).cell = NULL

\* C15: if the start point of the track, after the nudge, lies in no cell,
\* segmentize ends in a fatal error, appends no segment to the track and
\* leaves max_seg_length and min_seg_length as they were.
C15_StartOutsideFatal ==
    (InSegmentize /\ StartInNoCell)
        => /\ fatal
           /\ LastFrame.pc = "fatal"
           /\ LastFrame.segments = <<>>
           /\ max_seg_length = hist.pre.max_seg_length
           /\ min_seg_length = hist.pre.min_seg_length

\* the second track starts on the right edge of the box, after a first track
\* was cut into segments and set both statistics
C15_Witness ==
    /\ InSegmentize
    /\ StartInNoCell
    /\ Len(frames) = 2
    /\ frames[1].pc = "done"
    /\ frames[1].segments # <<>>
    /\ hist.pre.max_seg_length > 0
    /\ hist.pre.min_seg_length < Infinity
    /\ fatal

\* everything of the geometry but the two segment length statistics
AllButStatistics(g) ==
    <<Registries(g), g.num_FSRs, g.num_groups, BoxAndFlags(g),
      g.FSRs_to_cells, g.FSRs_to_materials, g.region_maps>>

\* C16: a segmentize call on an initialized geometry changes only
\* max_seg_length, min_seg_length and the segment list of its own track: the
\* five registries, num_FSRs, the number of energy groups, the bounding box,
\* the four boundary flags and both inverse maps are as before the call, the
\* tracks of earlier calls keep their segments, and when the call has returned
\* both coord chains are pruned down to their head.
C16_SegmentizeFrame ==
    /\ [](InSegmentize =>
            /\ AllButStatistics(Geo) = AllButStatistics(hist.pre)
            /\ LastFrame.pc = "done" =>
                  /\ Len(LastFrame.segment_start) = 1
                  /\ Len(LastFrame.segment_end) = 1)
    /\ [][\A t \in DOMAIN frames :
             t # Len(frames') => frames'[t].segments = frames[t].segments]_vars

\* the second call has returned with three segments: it moved min_seg_length,
\* had built chains down to the pin cells, and the first track has its segments
C16_Witness ==
    /\ InSegmentize
    /\ Len(frames) = 2
    /\ LastFrame.pc = "done"
    /\ Len(LastFrame.segments) = 3
    /\ frames[1].segments # <<>>
    /\ min_seg_length < hist.pre.min_seg_length
    /\ ~fatal

-----------------------------------------------------------------------------
(* Determinism of the FSR numbering *)

-----------------------------------------------------------------------------
(* Claims about findNextCell *)

\* C18: findNextCell terminates on every valid chain, with or without a
\* lattice in it: no findNextCell call made by segmentize stays in the loop
\* over the lattices of the chain, where a pass that neither returns nor
\* changes the chain is followed by the same pass for ever.
C18_FindNextCellTerminates ==
    \A t \in DOMAIN frames : frames[t].pc # "hang"

\* a chain without its coordinates
Shape(coords) ==
    [k \in 1..Len(coords) |-> [coords[k] EXCEPT !.x = 0, !.y = 0]]

\* the chain from the root node down to a material cell is one of the chains
\* of the hierarchy
ValidChain(g, coords) ==
    /\ coords[1].universe = 0
    /\ Shape(coords) \in ValidChains(g, 0)

\* the region of the point (x, y) of the root frame: the shape of its chain,
\* <<>> if the point is in no cell
RegionAt(g, x, y) ==
    TheOnly({IF r.cell = NULL THEN <<>> ELSE Shape(r.coords)
             : r \in {findCell(g, LocalCoords(x, y))}})

\* the ray from point p leaves the geometry when it leaves the region of p
LeavesGeometry(g, p, phi) ==
    LET reach == (g.x_max - g.x_min) + (g.y_max - g.y_min)
        ahead(n) == RegionAt(g, p.x + n * cos(phi) * TINY_MOVE,
                             p.y + n * sin(phi) * TINY_MOVE)
        changes == {n \in 1..reach : ahead(n) # ahead(0)}
    IN  changes # {} /\ ahead(Min(changes)) = <<>>

\* a findNextCell call of frame f has returned
Returned(f) == f.prev # NULL /\ f.pc # "hang"

LatticeCells(coords) ==
    LET lat == {k \in 1..Len(coords) : coords[k].type = "LAT"}
    IN  {<<Cardinality({m \in lat : m <= k}),
           coords[k].lattice, coords[k].lattice_x, coords[k].lattice_y>>
         : k \in lat}

\* the last findNextCell call of frame f returned the cell found after the
\* move across the surface ahead: the distance was finite, the cell is not
\* NULL and the walk of the two chains met no differing lattice nodes
ReturnedByCaseA(g, f) ==
    LET test == f.segment_start
        lowest_level == getLowestLevel(test)
        surf == minSurfaceDist(g.cells[lowest_level.cell],
                               getPoint(lowest_level), f.track.phi)
        found == relocate(g, test, surf.point, f.track.phi)
    IN  /\ surf.dist # Infinity
        /\ found.cell # NULL
        /\ ~inNewLatticeCell(test, found.coords, Len(test), Len(found.coords))
        /\ f.segment_end = found.coords

\* C20: a cell that findNextCell returns after the move across a surface of
\* the current cell lies, at every lattice level, in the same lattice cell as
\* the cell the ray started in; a change of lattice cell is left to the
\* lattice stepping, which starts from the chain saved before the move.
C20_CaseAKeepsLatticeCell ==
    \A t \in DOMAIN frames :
        LET f == frames[t]
        IN  (Returned(f) /\ f.curr # NULL /\ ReturnedByCaseA(Geo, f))
                => LatticeCells(f.segment_end) = LatticeCells(f.segment_start)

-----------------------------------------------------------------------------
(* Claims about the segments of a track *)

\* the chain and the cell of the point where segment n of frame f starts
SegmentStart(g, f, n) ==
    findCell(g, LocalCoords(f.spans[n][1].x, f.spans[n][1].y))

\* C21: every segment appended by segmentize carries the material of the cell
\* that holds its start point and the FSR ID of the chain of that point, and
\* the inverse maps agree with both: FSRs_to_materials of the region ID is the
\* segment's material and FSRs_to_cells of the region ID is that cell.
C21_SegmentAgreesWithMaps ==
    \A k \in DOMAIN frames :
        \A n \in DOMAIN frames[k].segments :
            \A start \in {SegmentStart(Geo, frames[k], n)} :
                LET seg == frames[k].segments[n]
                IN  /\ seg.material = cells[start.cell].material
                    /\ seg.region_id = findFSRId(Geo, start.coords)
                    /\ FSRs_to_materials[seg.region_id + 1] = seg.material
                    /\ FSRs_to_cells[seg.region_id + 1] = start.cell

\* the sum of the lengths of a sequence of segments
RECURSIVE SumOfLengths(_)
SumOfLengths(segs) ==
    IF segs = <<>> THEN 0 ELSE Head(segs).length + SumOfLengths(Tail(segs))

\* the start point of a track after the nudge of findFirstCell
NudgedStart(track) ==
    Point(track.x + cos(track.phi) * TINY_MOVE,
          track.y + sin(track.phi) * TINY_MOVE)

\* C22: within one segmentize call the segments tile the ray: the first
\* segment starts at the nudged start of the track, every later segment starts
\* at the point where the segment before it ended, every segment is as long as
\* its two points are apart, and the lengths add up to the distance from the
\* start of the first segment to the end of the last.
C22_SegmentsTileRay ==
    \A k \in DOMAIN frames :
        LET f == frames[k]
            last == Len(f.segments)
        IN  last > 0 =>
              /\ f.spans[1][1] = NudgedStart(f.track)
              /\ \A n \in 2..last : f.spans[n][1] = f.spans[n - 1][2]
              /\ \A n \in 1..last :
                    f.segments[n].length
                        = distance(f.spans[n][1], f.spans[n][2])
              /\ SumOfLengths(f.segments)
                    = distance(f.spans[1][1], f.spans[last][2])

\* a call has returned with three segments of two different lengths
C22_Witness ==
    \E k \in DOMAIN frames :
        /\ frames[k].pc = "done"
        /\ Len(frames[k].segments) = 3
        /\ frames[k].segments[1].length # frames[k].segments[3].length
        /\ SumOfLengths(frames[k].segments) > 4

\* the lengths of the segments appended so far lie between the two statistics
LengthsWithinStatistics ==
    \A k \in DOMAIN frames :
        \A n \in DOMAIN frames[k].segments :
            /\ min_seg_length <= frames[k].segments[n].length
            /\ frames[k].segments[n].length <= max_seg_length

\* C23: before the first segmentize call max_seg_length is 0 and
\* min_seg_length is +infinity, as the constructor set them; over any sequence
\* of segmentize calls max_seg_length never decreases and min_seg_length never
\* increases; and when a call has returned, the length of every segment
\* appended so far lies between min_seg_length and max_seg_length.
C23_StatisticsMonotonic ==
    /\ [](/\ Len(frames) = 0 =>
                max_seg_length = 0 /\ min_seg_length = Infinity
          /\ (Len(frames) > 0 /\ LastFrame.pc = "done") =>
                LengthsWithinStatistics)
    /\ [][/\ max_seg_length' >= max_seg_length
          /\ min_seg_length' <= min_seg_length]_vars

\* the second call has returned; its segments are longer than those of the
\* first call, so it raised max_seg_length and kept min_seg_length
C23_Witness ==
    /\ InSegmentize
    /\ Len(frames) = 2
    /\ frames[1].pc = "done"
    /\ LastFrame.pc = "done"
    /\ Len(LastFrame.segments) > 0
    /\ hist.pre.max_seg_length > 0
    /\ max_seg_length > hist.pre.max_seg_length
    /\ min_seg_length = hist.pre.min_seg_length
    /\ min_seg_length < max_seg_length

------------------------------------------------------------------------------
(* Claims about failing and reordered construction calls *)

\* C24: an addMaterial call that fails (duplicate ID, zero groups, group-count
\* mismatch, or a failing checkSigmaT) leaves the material registry and
\* num_energy_groups as they were before the call, so that num_energy_groups
\* is nonzero only when the registry holds at least one material.
C24_FailedAddMaterialNoChange ==
    /\ (hist.op = "addMaterial" /\ fatal)
          => /\ materials = hist.pre.materials
             /\ num_groups = hist.pre.num_groups
    /\ num_groups # 0 => DOMAIN materials # {}

\* the part of the geometry that addSurface writes
SurfacesBoxAndFlags(g) == <<g.surfaces, BoxAndFlags(g)>>

\* C25: for any two surfaces with distinct IDs, adding them to the geometry
\* in either order yields the same surface registry, the same bounding box
\* and the same four BC flags, also when the two surfaces have the same
\* extent on a side and different boundary types.
C25_AddSurfaceOrderIndependent ==
    \A s1, s2 \in BigSurfacePool :
        s1.id # s2.id =>
            SurfacesBoxAndFlags(addSurface(addSurface(Geo, s1), s2))
                = SurfacesBoxAndFlags(addSurface(addSurface(Geo, s2), s1))

=============================================================================
